---- MODULE Spec2Model ----
(***************************************************************************)
(* Model of gdsfactory's GDS preprocessing for meshing                      *)
(* (gdsfactory/simulation/gmsh/parse_gds.py) and of the Event class         *)
(* (gdsfactory/events.py).                                                  *)
(*                                                                          *)
(* Geometry.  Coordinates are integers in hundredths of a layout unit, so   *)
(* 10.0 is 1000.  The plane is the square [0,20] x [0,20], cut in 4 x 4     *)
(* cells of 5 x 5 units; an area-like region whose vertices lie on that     *)
(* grid is the set of cells it covers.  A shapely geometry is a record      *)
(*     [geom_type |-> "Polygon" | "MultiPolygon" | "GeometryCollection"     *)
(*                    | "MultiLineString",                                  *)
(*      geoms     |-> the sequence of its parts, each a set of cells]       *)
(* where a Polygon has exactly one part (the empty set for POLYGON EMPTY).  *)
(* The results of shapely's overlay operations are those of shapely 2       *)
(* (GEOS >= 3.9): the empty result of a polygonal overlay is POLYGON EMPTY. *)
(* The layers handled are area-like or empty, as fuse_polygons returns      *)
(* them; curve-like layers are not modelled.                                *)
(***************************************************************************)
EXTENDS Integers, Sequences, FiniteSets, TLC

\* ------------------------------------------------------------------ bounds

\* The longest layer map / layer stack the model builds.
MaxLayers == 3

LayerNames == <<"core", "clad", "box", "sub">>

\* ------------------------------------------------------------------- state

VARIABLES
    \* tile_shapes
    shapes_dict,        \* the argument of the running call
    shapes_tiled_dict,  \* the dict being built
    iteration,          \* iterations of the outer loop done
    tile_pc,            \* "idle" | "loop" | "done"
    returned,           \* history: <<argument, result>> of every finished call
    \* cleanup_component and fuse_polygons
    component,          \* the source layout: a sequence of [layer, points]
    layerstack_dict,    \* layerstack.to_dict(): a sequence of <<layername, layer>>
    passed,             \* the tolerances the caller passes, [given, value] each
    empty_type,         \* the build: the type of an empty union
    stack_pos,          \* items of layerstack_dict the comprehension has taken
    fused,              \* the dict the comprehension builds
    fuse_calls,         \* history: the calls of fuse_polygons, in order
    stack_pc,           \* "idle" | "comprehension" | "returned" | "raised"
    \* fuse_polygons, one call per layer, the calls interleaved
    source,             \* history: the layout before any call
    worker_pc,          \* per item of the stack: "none" | "start" | "polygons"
                        \*   | "done" | "raised"
    layer_component,    \* per call: the local layer_component
    polygon_index,      \* per call: raw polygons of get_polygons() taken
    polygon_lists,      \* the lists shapely_polygons, by the list's identity
    slots,              \* per item of the stack: the fused region, or Pending
    \* round_coordinates
    geom,               \* the argument: the ring of a polygon
    ndigits,            \* the argument
    rounded,            \* the result
    round_pc,           \* "idle" | "called" | "done"
    \* Event
    handlers,           \* Event._handlers
    called,             \* the handler calls of the last operation, <<handler, args>>
    last_op,            \* history: the last operation, [name, handler, args]
    before,             \* history: _handlers before the last operation
    live                \* history: per handler, registrations added and not
                        \*   removed or cleared

tileVars == <<shapes_dict, shapes_tiled_dict, iteration, tile_pc, returned>>

layoutVars == <<component, layerstack_dict, passed, empty_type>>

stackVars == <<stack_pos, fused, fuse_calls, stack_pc>>

workerVars == <<source, worker_pc, layer_component, polygon_index,
                polygon_lists, slots>>

roundVars == <<geom, ndigits, rounded, round_pc>>

eventVars == <<handlers, called, last_op, before, live>>

vars == <<tileVars, layoutVars, stackVars, workerVars, roundVars, eventVars>>

\* ---------------------------------------------------------------- geometry

Cells == (0..3) \X (0..3)

\* Area of a region, in square layout units (a cell is 5 x 5).
Area(S) == 25 * Cardinality(S)

CellIndex(c) == 4 * c[1] + c[2]

Adjacent(c, d) ==
    \/ c[1] = d[1] /\ (c[2] = d[2] + 1 \/ d[2] = c[2] + 1)
    \/ c[2] = d[2] /\ (c[1] = d[1] + 1 \/ d[1] = c[1] + 1)

\* The cells of S connected to the seed through shared edges.
RECURSIVE Reach(_, _)
Reach(seed, S) ==
    LET more == {c \in S \ seed : \E d \in seed : Adjacent(c, d)}
    IN  IF more = {} THEN seed ELSE Reach(seed \cup more, S)

\* The connected parts of a region: the polygons of a valid MultiPolygon
\* (its polygons may touch at points only).
RECURSIVE Components(_)
Components(S) ==
    IF S = {} THEN <<>>
    ELSE LET c == CHOOSE x \in S : \A y \in S : CellIndex(x) <= CellIndex(y)
             part == Reach({c}, S)
         IN  <<part>> \o Components(S \ part)

Polygon(S) == [geom_type |-> "Polygon", geoms |-> <<S>>]

EmptyCollection == [geom_type |-> "GeometryCollection", geoms |-> <<>>]

\* The geometry a polygonal overlay (union, difference) returns for the
\* region S: a Polygon when S is connected or empty, else a MultiPolygon.
FromCells(S) ==
    LET parts == Components(S)
    IN  IF Len(parts) <= 1 THEN Polygon(S)
        ELSE [geom_type |-> "MultiPolygon", geoms |-> parts]

\* The point set of a geometry.
RegionOf(shape) == UNION {shape.geoms[i] : i \in 1..Len(shape.geoms)}

\* a.difference(b)
Difference(a, b) == FromCells(RegionOf(a) \ RegionOf(b))

\* hasattr(shape, "geoms")
HasGeoms(shape) == shape.geom_type # "Polygon"

\* shapes.geoms if hasattr(shapes, "geoms") else [shapes]
GeomsOrSelf(shape) ==
    IF HasGeoms(shape)
    THEN [i \in 1..Len(shape.geoms) |-> Polygon(shape.geoms[i])]
    ELSE <<shape>>

\* ------------------------------------------------------------ dictionaries

\* A Python dict is the sequence of its <<key, value>> items in insertion
\* order, with no key twice.
Keys(d) == [i \in 1..Len(d) |-> d[i][1]]

HasKey(d, k) == \E i \in 1..Len(d) : d[i][1] = k

Get(d, k) == d[CHOOSE i \in 1..Len(d) : d[i][1] = k][2]

\* d[k] = v
DictSet(d, k, v) ==
    IF HasKey(d, k)
    THEN [i \in 1..Len(d) |-> IF d[i][1] = k THEN <<k, v>> ELSE d[i]]
    ELSE Append(d, <<k, v>>)

Reverse(s) == [i \in 1..Len(s) |-> s[Len(s) + 1 - i]]

\* ------------------------------------------------- tile_shapes (parse_gds)

\* The number of calls of tile_shapes in one behaviour (the second is fed
\* the result of the first).
MaxRuns == 2

\* Faulty slices, against which C1, C3 and C2 are tried: one layer short
\* ([:lower_index - 1]), one too many ([:lower_index + 1], the layer itself),
\* and every layer but the lower one.
higher_layers_skip_nearest(d, index) == SubSeq(d, 1, index - 1)

higher_layers_with_self(d, index) == SubSeq(d, 1, index + 1)

higher_layers_all_others(d, index) ==
    SubSeq(d, 1, index) \o SubSeq(d, index + 2, Len(d))

\* The layers above the lower one, in the dict's order:
\* list(enumerate(shapes_dict.items()))[:lower_index]
higher_layers(d, index) == SubSeq(d, 1, index)

\* for higher_shape in (...): diff_shape = diff_shape.difference(higher_shape)
RECURSIVE subtract_geoms(_, _)
subtract_geoms(diff_shape, higher_geoms) ==
    IF higher_geoms = <<>> THEN diff_shape
    ELSE subtract_geoms(Difference(diff_shape, Head(higher_geoms)),
                        Tail(higher_geoms))

\* for _higher_index, (_higher_name, higher_shapes) in reversed(...): ...
RECURSIVE subtract_layers(_, _)
subtract_layers(diff_shape, layers) ==
    IF layers = <<>> THEN diff_shape
    ELSE subtract_layers(
             subtract_geoms(diff_shape, GeomsOrSelf(Head(layers)[2])),
             Tail(layers))

\* The list tiled_lower_shapes after the loop over the lower layer's shapes.
tiled_lower_shapes(d, index) ==
    LET lower_geoms == GeomsOrSelf(d[index + 1][2])
        highers == Reverse(higher_layers(d, index))
    IN  [k \in 1..Len(lower_geoms) |-> subtract_layers(lower_geoms[k], highers)]

\* to_polygons: a Polygon as it is, any other geometry by its parts.
RECURSIVE to_polygons(_)
to_polygons(geometries) ==
    IF geometries = <<>> THEN <<>>
    ELSE LET geometry == Head(geometries)
         IN  (IF geometry.geom_type = "Polygon" THEN <<geometry>>
              ELSE [i \in 1..Len(geometry.geoms) |-> Polygon(geometry.geoms[i])])
             \o to_polygons(Tail(geometries))

\* shapely's MultiPolygon(polygons): empty polygons are left out.
RECURSIVE MultiPolygonParts(_)
MultiPolygonParts(polygons) ==
    IF polygons = <<>> THEN <<>>
    ELSE (IF RegionOf(Head(polygons)) = {} THEN <<>>
          ELSE <<RegionOf(Head(polygons))>>)
         \o MultiPolygonParts(Tail(polygons))

MultiPolygon(polygons) ==
    [geom_type |-> "MultiPolygon", geoms |-> MultiPolygonParts(polygons)]

\* shapely's MultiLineString(lines).  With the inputs below the list is
\* always empty here: a non-empty list starts with a Polygon or MultiPolygon.
MultiLineString(lines) ==
    [geom_type |-> "MultiLineString",
     geoms |-> [i \in 1..Len(lines) |-> RegionOf(lines[i])]]

\* The value stored under the lower layer's name (lines 109-117).
pack(tiled) ==
    IF tiled # <<>> /\ tiled[1].geom_type \in {"Polygon", "MultiPolygon"}
    THEN MultiPolygon(to_polygons(tiled))
    ELSE MultiLineString(tiled)

\* A faulty order, against which C10 is tried: the loop without reversed().
outer_order_forward(d) == [k \in 1..Len(d) |-> k - 1]

\* The 0-based indices the outer loop visits, in order:
\* reversed(list(enumerate(shapes_dict.items()))).
outer_order(d) == [k \in 1..Len(d) |-> Len(d) - k]

\* The inputs: every map of at most MaxLayers layers, each layer's fused
\* region a union of 10 x 10 quadrants of the plane (nothing, one quadrant,
\* two quadrants that touch at a point, a rectangle, an L, the whole
\* square), or the empty collection (the fusion of a layer with no polygon).
\* These are the geometries fuse_polygons returns: area-like, or empty.
QuadrantCells(q) == {<<2 * q[1] + i, 2 * q[2] + j>> : i \in 0..1, j \in 0..1}

QuadrantSets ==
    { {},
      {<<0, 0>>},
      {<<1, 1>>},
      {<<1, 0>>},
      {<<0, 0>>, <<1, 1>>},
      {<<0, 1>>, <<1, 0>>},
      {<<0, 0>>, <<0, 1>>},
      {<<0, 0>>, <<0, 1>>, <<1, 0>>},
      {<<0, 1>>, <<1, 0>>, <<1, 1>>},
      {<<0, 0>>, <<0, 1>>, <<1, 0>>, <<1, 1>>} }

InputRegions == {UNION {QuadrantCells(q) : q \in Q} : Q \in QuadrantSets}

InputShapes == {FromCells(S) : S \in InputRegions} \cup {EmptyCollection}

FusedMaps ==
    UNION {{[i \in 1..n |-> <<LayerNames[i], f[i]>>] : f \in [1..n -> InputShapes]}
           : n \in 0..MaxLayers}

TileInit ==
    /\ shapes_dict \in FusedMaps
    /\ shapes_tiled_dict = <<>>
    /\ iteration = 0
    /\ tile_pc = "loop"
    /\ returned = <<>>

\* One iteration of the outer loop (lines 91-117).
TileLayer ==
    /\ tile_pc = "loop"
    /\ iteration < Len(shapes_dict)
    /\ LET lower_index == outer_order(shapes_dict)[iteration + 1]
           lower_name == shapes_dict[lower_index + 1][1]
       IN  shapes_tiled_dict' =
               DictSet(shapes_tiled_dict, lower_name,
                       pack(tiled_lower_shapes(shapes_dict, lower_index)))
    /\ iteration' = iteration + 1
    /\ UNCHANGED <<shapes_dict, tile_pc, returned>>
    /\ UNCHANGED <<layoutVars, stackVars, workerVars, roundVars, eventVars>>

\* return shapes_tiled_dict (line 119)
TileReturn ==
    /\ tile_pc = "loop"
    /\ iteration = Len(shapes_dict)
    /\ tile_pc' = "done"
    /\ returned' = Append(returned, <<shapes_dict, shapes_tiled_dict>>)
    /\ UNCHANGED <<shapes_dict, shapes_tiled_dict, iteration>>
    /\ UNCHANGED <<layoutVars, stackVars, workerVars, roundVars, eventVars>>

\* tile_shapes(tile_shapes(...)): the result of the finished call is the
\* argument of a new one.
TileAgain ==
    /\ tile_pc = "done"
    /\ Len(returned) < MaxRuns
    /\ shapes_dict' = shapes_tiled_dict
    /\ shapes_tiled_dict' = <<>>
    /\ iteration' = 0
    /\ tile_pc' = "loop"
    /\ UNCHANGED returned
    /\ UNCHANGED <<layoutVars, stackVars, workerVars, roundVars, eventVars>>

TileIdle ==
    /\ shapes_dict = <<>>
    /\ shapes_tiled_dict = <<>>
    /\ iteration = 0
    /\ tile_pc = "idle"
    /\ returned = <<>>

\* ---------------------------------------------- round_coordinates (parse_gds)

\* A coordinate is an integer number of hundredths that is a multiple of 25
\* (a multiple of 0.25, which a float holds exactly), or the rounding of one.
\* A point is <<x, y>> or <<x, y, z>>.

RECURSIVE Pow10(_)
Pow10(n) == IF n = 0 THEN 1 ELSE 10 * Pow10(n - 1)

\* Python's round(v / 100, ndigits), in hundredths: the nearest multiple of
\* 10^-ndigits, a tie going to the even multiple (the ties of the
\* coordinates above are exact in binary, so they are ties for Python too).
round(v, n) ==
    IF n >= 2 THEN v
    ELSE LET m == Pow10(2 - n)
             q == v \div m
             r == v % m
         IN  IF 2 * r < m THEN q * m
             ELSE IF 2 * r > m THEN (q + 1) * m
             ELSE IF q % 2 = 0 THEN q * m ELSE (q + 1) * m

\* _round_coords(x, y, z=None) (lines 18-25)
round_coords(point, n) ==
    LET x == round(point[1], n)
        y == round(point[2], n)
    IN  IF Len(point) = 3
        THEN <<x, y, round(x, n)>>   \* line 23: z = round(x, ndigits)
        ELSE <<x, y>>

\* shapely.ops.transform(_round_coords, geom) on the ring of a polygon: the
\* function is applied to every coordinate tuple, in order.
round_coordinates(ring, n) ==
    [i \in 1..Len(ring) |-> round_coords(ring[i], n)]

\* ------------------------------------------------- fuse_polygons (parse_gds)

\* shapely's Polygon(points) raises ValueError for one or two points.
PolygonRaises(points) == Len(points) \in {1, 2}

\* The closed ring of Polygon(points): the first point is repeated at the
\* end when the points are not closed (or are only three).
LinearRing(points) ==
    IF points = <<>> THEN <<>>
    ELSE IF points[1] # points[Len(points)] \/ Len(points) = 3
         THEN Append(points, points[1])
         ELSE points

Min(a, b) == IF a < b THEN a ELSE b

Max(a, b) == IF a < b THEN b ELSE a

CellCentre(c) == <<500 * c[1] + 250, 500 * c[2] + 250>>

\* The cells inside a rectilinear ring with vertices on the grid: those
\* whose centre has an odd number of the ring's vertical edges to its right.
Cover(ring) ==
    {c \in Cells :
        LET p == CellCentre(c)
            right == {k \in 1..(Len(ring) - 1) :
                         /\ ring[k][1] = ring[k + 1][1]
                         /\ ring[k][1] > p[1]
                         /\ Min(ring[k][2], ring[k + 1][2]) < p[2]
                         /\ p[2] < Max(ring[k][2], ring[k + 1][2])}
        IN  Cardinality(right) % 2 = 1}

\* shapely.ops.unary_union(polygons): no polygon gives GEOMETRYCOLLECTION
\* EMPTY; polygons of no area add nothing, and when nothing is left the
\* result is the build's empty geometry (POLYGON EMPTY or GEOMETRYCOLLECTION
\* EMPTY, by the version of GEOS).
unary_union(rings, empty) ==
    LET region == UNION {Cover(rings[i]) : i \in 1..Len(rings)}
    IN  IF rings = <<>> THEN EmptyCollection
        ELSE IF region = {}
             THEN (IF empty = "Polygon" THEN Polygon({}) ELSE EmptyCollection)
             ELSE FromCells(region)

\* geom.simplify(tolerance, preserve_topology=True) with a tolerance of
\* 10^simplify_tol <= 0.01: the regions here have edges of 5 units or more,
\* so only vertices in the middle of a straight edge go and the region stays.
simplify(shape, simplify_tol) == shape

\* component.extract(layer): the sub-layout of the polygons on that layer.
\* The layout is the sequence of its polygons, [layer, points].
Extract(layout, layer) ==
    SelectSeq(layout, LAMBDA polygon : polygon.layer = layer)

\* layer_component.get_polygons(): the raw rings.
get_polygons(layout) ==
    [i \in 1..Len(layout) |-> layout[i].points]

\* fuse_polygons raises when Polygon(polygon) does, for any raw polygon.
fuse_raises(layout, layer) ==
    LET polygons == get_polygons(Extract(layout, layer))
    IN  \E i \in 1..Len(polygons) : PolygonRaises(polygons[i])

\* The list shapely_polygons (lines 41-44).
shapely_polygons(layout, layer, round_tol) ==
    LET polygons == get_polygons(Extract(layout, layer))
    IN  [i \in 1..Len(polygons) |->
            round_coordinates(LinearRing(polygons[i]), round_tol)]

\* The value fuse_polygons returns when it does not raise (lines 46-48).
fuse_polygons(layout, layername, layer, round_tol, simplify_tol, empty) ==
    simplify(unary_union(shapely_polygons(layout, layer, round_tol), empty),
             simplify_tol)

\* --------------------------------------------- cleanup_component (parse_gds)

\* The longest layout (number of raw polygons).
MaxPolys == 2

\* cleanup_component's defaults: round_tol = 2, simplify_tol = 1e-2 (as the
\* exponent of ten).
cleanup_round_tol == 2

cleanup_simplify_tol == -2

None == "None"

Selectors == {"1/0", "2/0"}

\* Raw polygons, as get_polygons gives them (not closed), in hundredths.
Rings ==
    { <<<<0, 0>>, <<1000, 0>>, <<1000, 1000>>, <<0, 1000>>>>,      \* 10 x 10 at the origin
      <<<<500, 500>>, <<1500, 500>>, <<1500, 1500>>, <<500, 1500>>>>, \* 10 x 10 at (5, 5)
      <<<<0, 0>>, <<500, 0>>, <<500, 500>>, <<0, 500>>>>,          \* 5 x 5 at the origin
      <<<<0, 0>>, <<1000, 0>>, <<2000, 0>>>>,                      \* three points on a line
      <<<<0, 0>>, <<1000, 1000>>>> }                               \* two points

SeqsUpTo(S, n) == UNION {[1..k -> S] : k \in 0..n}

Layouts == SeqsUpTo([layer : Selectors, points : Rings], MaxPolys)

Stacks ==
    UNION {{[i \in 1..n |-> <<LayerNames[i], f[i]>>] :
                f \in [1..n -> Selectors \cup {None}]} : n \in 0..MaxLayers}

Tolerances ==
    [round_tol : {[given |-> FALSE, value |-> 0], [given |-> TRUE, value |-> 0],
                  [given |-> TRUE, value |-> -1]},
     simplify_tol : {[given |-> FALSE, value |-> 0], [given |-> TRUE, value |-> -5]}]

\* The value a parameter is bound to: the argument, or the default.
round_tol == IF passed.round_tol.given THEN passed.round_tol.value
             ELSE cleanup_round_tol

simplify_tol == IF passed.simplify_tol.given THEN passed.simplify_tol.value
                ELSE cleanup_simplify_tol

LayoutIdle ==
    /\ component = <<>>
    /\ layerstack_dict = <<>>
    /\ passed = [round_tol |-> [given |-> FALSE, value |-> 0],
                 simplify_tol |-> [given |-> FALSE, value |-> 0]]
    /\ empty_type = "Polygon"

StackIdle ==
    /\ stack_pos = 0
    /\ fused = <<>>
    /\ fuse_calls = <<>>
    /\ stack_pc = "idle"

StackInit ==
    /\ component \in Layouts
    /\ layerstack_dict \in Stacks
    /\ passed \in Tolerances
    /\ empty_type \in {"Polygon", "GeometryCollection"}
    /\ stack_pos = 0
    /\ fused = <<>>
    /\ fuse_calls = <<>>
    /\ stack_pc = "comprehension"

\* An item whose layer is None is passed over (line 68).
StackSkip ==
    /\ stack_pc = "comprehension"
    /\ stack_pos < Len(layerstack_dict)
    /\ layerstack_dict[stack_pos + 1][2] = None
    /\ stack_pos' = stack_pos + 1
    /\ UNCHANGED <<fused, fuse_calls, stack_pc>>
    /\ UNCHANGED <<tileVars, layoutVars, workerVars, roundVars, eventVars>>

\* An item with a layer: fuse_polygons is called and its value stored under
\* the layer's name (lines 60-66).
StackFuse ==
    /\ stack_pc = "comprehension"
    /\ stack_pos < Len(layerstack_dict)
    /\ LET layername == layerstack_dict[stack_pos + 1][1]
           layer == layerstack_dict[stack_pos + 1][2]
       IN  /\ layer # None
           /\ ~fuse_raises(component, layer)
           /\ fuse_calls' = Append(fuse_calls,
                  [layername |-> layername, layer |-> layer,
                   round_tol |-> round_tol, simplify_tol |-> simplify_tol])
           /\ fused' = DictSet(fused, layername,
                  fuse_polygons(component, layername, layer, round_tol,
                                simplify_tol, empty_type))
    /\ stack_pos' = stack_pos + 1
    /\ UNCHANGED stack_pc
    /\ UNCHANGED <<tileVars, layoutVars, workerVars, roundVars, eventVars>>

\* The call of fuse_polygons raises (Polygon(polygon), line 42): nothing
\* catches the exception, cleanup_component ends with it and returns no dict.
StackRaise ==
    /\ stack_pc = "comprehension"
    /\ stack_pos < Len(layerstack_dict)
    /\ LET layername == layerstack_dict[stack_pos + 1][1]
           layer == layerstack_dict[stack_pos + 1][2]
       IN  /\ layer # None
           /\ fuse_raises(component, layer)
           /\ fuse_calls' = Append(fuse_calls,
                  [layername |-> layername, layer |-> layer,
                   round_tol |-> round_tol, simplify_tol |-> simplify_tol])
    /\ stack_pc' = "raised"
    /\ UNCHANGED <<stack_pos, fused>>
    /\ UNCHANGED <<tileVars, layoutVars, workerVars, roundVars, eventVars>>

\* The comprehension is exhausted: the dict is returned.
StackReturn ==
    /\ stack_pc = "comprehension"
    /\ stack_pos = Len(layerstack_dict)
    /\ stack_pc' = "returned"
    /\ UNCHANGED <<stack_pos, fused, fuse_calls>>
    /\ UNCHANGED <<tileVars, layoutVars, workerVars, roundVars, eventVars>>

\* ------------------------------- fuse_polygons, the calls of a stack interleaved

\* The calls of fuse_polygons that cleanup_component makes for one stack,
\* run as independent workers whose steps interleave in any order: extract
\* the layer, build and round the polygons one by one, unite them and store
\* the result in the layer's slot.

\* The most calls of fuse_polygons that run interleaved.
MaxWorkers == 2

Pending == [geom_type |-> "pending", geoms |-> <<>>]

WorkerRings ==
    { <<<<500, 500>>, <<1500, 500>>, <<1500, 1500>>, <<500, 1500>>>>,
      <<<<0, 0>>, <<1000, 1000>>>> }

WorkerLayouts == SeqsUpTo([layer : Selectors, points : WorkerRings], MaxPolys)

WorkerStacks ==
    UNION {{[i \in 1..n |-> <<LayerNames[i], f[i]>>] : f \in [1..n -> Selectors]}
           : n \in 1..MaxWorkers}

WorkerTolerances ==
    [round_tol : {[given |-> FALSE, value |-> 0], [given |-> TRUE, value |-> -1]},
     simplify_tol : {[given |-> FALSE, value |-> 0]}]

\* A faulty identity, against which C9 is tried: one list for all the calls.
list_of_shared(i) == 1

\* The list shapely_polygons a call builds is its own (lines 41-44).
list_of(i) == i

WorkersIdle ==
    /\ source = <<>>
    /\ worker_pc = <<>>
    /\ layer_component = <<>>
    /\ polygon_index = <<>>
    /\ polygon_lists = <<>>
    /\ slots = <<>>

WorkersInit ==
    /\ component \in WorkerLayouts
    /\ layerstack_dict \in WorkerStacks
    /\ passed \in WorkerTolerances
    /\ empty_type \in {"Polygon", "GeometryCollection"}
    /\ source = component
    /\ worker_pc = [i \in 1..Len(layerstack_dict) |->
                       IF layerstack_dict[i][2] = None THEN "none" ELSE "start"]
    /\ layer_component = [i \in 1..Len(layerstack_dict) |-> <<>>]
    /\ polygon_index = [i \in 1..Len(layerstack_dict) |-> 0]
    /\ polygon_lists = [i \in 1..Len(layerstack_dict) |-> <<>>]
    /\ slots = [i \in 1..Len(layerstack_dict) |-> Pending]

\* layer_component = component.extract(layer); the list starts empty.
FuseExtract(i) ==
    /\ worker_pc[i] = "start"
    /\ layer_component' =
           [layer_component EXCEPT ![i] = Extract(component, layerstack_dict[i][2])]
    /\ polygon_lists' = [polygon_lists EXCEPT ![list_of(i)] = <<>>]
    /\ worker_pc' = [worker_pc EXCEPT ![i] = "polygons"]
    /\ UNCHANGED <<source, polygon_index, slots>>
    /\ UNCHANGED <<tileVars, layoutVars, stackVars, roundVars, eventVars>>

\* round_coordinates(Polygon(polygon), round_tol) for the next raw polygon,
\* appended to the list.
FusePolygon(i) ==
    /\ worker_pc[i] = "polygons"
    /\ polygon_index[i] < Len(layer_component[i])
    /\ LET polygon == get_polygons(layer_component[i])[polygon_index[i] + 1]
       IN  /\ ~PolygonRaises(polygon)
           /\ polygon_lists' =
                  [polygon_lists EXCEPT ![list_of(i)] =
                      Append(@, round_coordinates(LinearRing(polygon), round_tol))]
    /\ polygon_index' = [polygon_index EXCEPT ![i] = @ + 1]
    /\ UNCHANGED <<source, worker_pc, layer_component, slots>>
    /\ UNCHANGED <<tileVars, layoutVars, stackVars, roundVars, eventVars>>

\* Polygon(polygon) raises: the call ends with the exception.
FusePolygonRaises(i) ==
    /\ worker_pc[i] = "polygons"
    /\ polygon_index[i] < Len(layer_component[i])
    /\ PolygonRaises(get_polygons(layer_component[i])[polygon_index[i] + 1])
    /\ worker_pc' = [worker_pc EXCEPT ![i] = "raised"]
    /\ UNCHANGED <<source, layer_component, polygon_index, polygon_lists, slots>>
    /\ UNCHANGED <<tileVars, layoutVars, stackVars, roundVars, eventVars>>

\* The union, simplified, is the call's value, stored under the layer's name.
FuseUnion(i) ==
    /\ worker_pc[i] = "polygons"
    /\ polygon_index[i] = Len(layer_component[i])
    /\ slots' = [slots EXCEPT ![i] =
                    simplify(unary_union(polygon_lists[list_of(i)], empty_type),
                             simplify_tol)]
    /\ worker_pc' = [worker_pc EXCEPT ![i] = "done"]
    /\ UNCHANGED <<source, layer_component, polygon_index, polygon_lists>>
    /\ UNCHANGED <<tileVars, layoutVars, stackVars, roundVars, eventVars>>

\* ------------------------------------------- round_coordinates, on its own

\* round_coordinates' default ndigits.
round_coordinates_ndigits == 5

RoundDigits == {-1, 0, 1, 2, round_coordinates_ndigits}

Points2 == {<<x, y>> : x \in {0, 25, 150}, y \in {-25, 50, 500}}

Points3 == {<<x, y, z>> : x \in {0, 25, 150}, y \in {-25, 50, 500}, z \in {75, 1500}}

\* The rings: closed, of three points and the first again, in 2 or 3 dimensions.
RingsOf(P) == {<<a, b, c, a>> : a \in P, b \in P, c \in P}

RoundGeoms == RingsOf(Points2) \cup RingsOf(Points3)

RoundIdle ==
    /\ geom = <<>>
    /\ ndigits = 0
    /\ rounded = <<>>
    /\ round_pc = "idle"

RoundInit ==
    /\ geom \in RoundGeoms
    /\ ndigits \in RoundDigits
    /\ rounded = <<>>
    /\ round_pc = "called"

\* return shapely.ops.transform(_round_coords, geom) (line 27)
RoundReturn ==
    /\ round_pc = "called"
    /\ rounded' = round_coordinates(geom, ndigits)
    /\ round_pc' = "done"
    /\ UNCHANGED <<geom, ndigits>>
    /\ UNCHANGED <<tileVars, layoutVars, stackVars, workerVars, eventVars>>

\* ------------------------------------------------------------ Event (events)

\* The longest list of handlers.
MaxHandlers == 3

Handlers == {"f", "g", "h"}

Args == {"x", "y"}

NoOp == [name |-> "init", handler |-> "-", args |-> "-"]

\* list.remove(x): the first item equal to x goes.
RECURSIVE list_remove(_, _)
list_remove(l, x) ==
    IF l = <<>> THEN <<>>
    ELSE IF Head(l) = x THEN Tail(l)
         ELSE <<Head(l)>> \o list_remove(Tail(l), x)

\* x in l
Contains(l, x) == \E i \in 1..Len(l) : l[i] = x

\* A faulty loop, against which C7 is tried: each handler called once,
\* however many times it is in the list.
fire_calls_once_each(l, args) ==
    LET firsts == SelectSeq([i \in 1..Len(l) |-> <<i, l[i]>>],
                            LAMBDA e : \A j \in 1..(e[1] - 1) : l[j] # e[2])
    IN  [i \in 1..Len(firsts) |-> <<firsts[i][2], args>>]

\* for eventhandler in self._handlers: eventhandler(*args, **kwargs).
\* A handler is an opaque callable: it does not touch the Event it is in.
RECURSIVE fire_calls(_, _)
fire_calls(l, args) ==
    IF l = <<>> THEN <<>>
    ELSE <<<<Head(l), args>>>> \o fire_calls(Tail(l), args)

EventIdle ==
    /\ handlers = <<>>
    /\ called = <<>>
    /\ last_op = [name |-> "idle", handler |-> "-", args |-> "-"]
    /\ before = <<>>
    /\ live = [h \in Handlers |-> 0]

\* Event(): no handler.
EventInit ==
    /\ handlers = <<>>
    /\ called = <<>>
    /\ last_op = NoOp
    /\ before = <<>>
    /\ live = [h \in Handlers |-> 0]

\* self._handlers.append(handler)
add_handler(handler) ==
    /\ last_op.name # "idle"
    /\ Len(handlers) < MaxHandlers
    /\ handlers' = Append(handlers, handler)
    /\ called' = <<>>
    /\ last_op' = [name |-> "add_handler", handler |-> handler, args |-> "-"]
    /\ before' = handlers
    /\ live' = [live EXCEPT ![handler] = @ + 1]
    /\ UNCHANGED <<tileVars, layoutVars, stackVars, workerVars, roundVars>>

\* event += handler: self.add_handler(handler)
iadd(handler) ==
    /\ last_op.name # "idle"
    /\ Len(handlers) < MaxHandlers
    /\ handlers' = Append(handlers, handler)
    /\ called' = <<>>
    /\ last_op' = [name |-> "iadd", handler |-> handler, args |-> "-"]
    /\ before' = handlers
    /\ live' = [live EXCEPT ![handler] = @ + 1]
    /\ UNCHANGED <<tileVars, layoutVars, stackVars, workerVars, roundVars>>

\* event -= handler: self._handlers.remove(handler)
isub(handler) ==
    /\ last_op.name # "idle"
    /\ Contains(handlers, handler)
    /\ handlers' = list_remove(handlers, handler)
    /\ called' = <<>>
    /\ last_op' = [name |-> "isub", handler |-> handler, args |-> "-"]
    /\ before' = handlers
    /\ live' = [live EXCEPT ![handler] = @ - 1]
    /\ UNCHANGED <<tileVars, layoutVars, stackVars, workerVars, roundVars>>

\* event -= handler with a handler that is not in the list: list.remove
\* raises ValueError and the list is as it was.
isub_raises(handler) ==
    /\ last_op.name # "idle"
    /\ ~Contains(handlers, handler)
    /\ called' = <<>>
    /\ last_op' = [name |-> "isub_raises", handler |-> handler, args |-> "-"]
    /\ before' = handlers
    /\ UNCHANGED <<handlers, live>>
    /\ UNCHANGED <<tileVars, layoutVars, stackVars, workerVars, roundVars>>

\* self._handlers.clear()
clear_handlers ==
    /\ last_op.name # "idle"
    /\ handlers' = <<>>
    /\ called' = <<>>
    /\ last_op' = [name |-> "clear_handlers", handler |-> "-", args |-> "-"]
    /\ before' = handlers
    /\ live' = [h \in Handlers |-> 0]
    /\ UNCHANGED <<tileVars, layoutVars, stackVars, workerVars, roundVars>>

\* fire(*args): every handler of the list is called with the arguments.
fire(args) ==
    /\ last_op.name # "idle"
    /\ called' = fire_calls(handlers, args)
    /\ last_op' = [name |-> "fire", handler |-> "-", args |-> args]
    /\ before' = handlers
    /\ UNCHANGED <<handlers, live>>
    /\ UNCHANGED <<tileVars, layoutVars, stackVars, workerVars, roundVars>>

\* ------------------------------------------------------ the specifications

\* tile_shapes, on every fused map within the bounds, then on its own result.
Init == TileInit /\ LayoutIdle /\ StackIdle /\ WorkersIdle /\ RoundIdle /\ EventIdle

Next == TileLayer \/ TileReturn \/ TileAgain

Spec == Init /\ [][Next]_vars

\* cleanup_component, on every layout and layer stack within the bounds.
InitStack == StackInit /\ TileIdle /\ WorkersIdle /\ RoundIdle /\ EventIdle

NextStack == StackSkip \/ StackFuse \/ StackRaise \/ StackReturn

SpecStack == InitStack /\ [][NextStack]_vars

\* The calls of fuse_polygons for one stack, interleaved.
InitWorkers == WorkersInit /\ TileIdle /\ StackIdle /\ RoundIdle /\ EventIdle

NextWorkers ==
    \/ \E i \in 1..Len(layerstack_dict) : FuseExtract(i)
    \/ \E i \in 1..Len(layerstack_dict) : FusePolygon(i)
    \/ \E i \in 1..Len(layerstack_dict) : FusePolygonRaises(i)
    \/ \E i \in 1..Len(layerstack_dict) : FuseUnion(i)

SpecWorkers == InitWorkers /\ [][NextWorkers]_vars

\* round_coordinates, on every ring and precision within the bounds.
InitRound == RoundInit /\ TileIdle /\ LayoutIdle /\ StackIdle /\ WorkersIdle /\ EventIdle

NextRound == RoundReturn

SpecRound == InitRound /\ [][NextRound]_vars

\* One Event, under every sequence of its operations.
InitEvent == EventInit /\ TileIdle /\ LayoutIdle /\ StackIdle /\ WorkersIdle /\ RoundIdle

NextEvent ==
    \/ \E handler \in Handlers : add_handler(handler)
    \/ \E handler \in Handlers : iadd(handler)
    \/ \E handler \in Handlers : isub(handler)
    \/ \E handler \in Handlers : isub_raises(handler)
    \/ clear_handlers
    \/ \E args \in Args : fire(args)

SpecEvent == InitEvent /\ [][NextEvent]_vars

\* ------------------------------------------------- claims on tile_shapes

\* The region stored under the i-th key of a dict of geometries.
RegionAt(d, i) == RegionOf(d[i][2])

AllRegions(d) == UNION {RegionAt(d, i) : i \in 1..Len(d)}

\* C1 (disjointness): at every point of every call of tile_shapes, any two
\* distinct layers of the dict built so far (hence of the returned dict)
\* have tiles whose intersection is empty (area 0).
C1_Disjoint ==
    \A i, j \in 1..Len(shapes_tiled_dict) :
        i # j => Area(RegionAt(shapes_tiled_dict, i)
                        \cap RegionAt(shapes_tiled_dict, j)) = 0

\* C1 witness: a first call has returned for an input with two layers whose
\* fused regions overlap, and both got a non-empty tile.
C1_Witness ==
    /\ tile_pc = "done"
    /\ Len(returned) = 1
    /\ \E i, j \in 1..Len(shapes_dict) :
          /\ i < j
          /\ RegionAt(shapes_dict, i) \cap RegionAt(shapes_dict, j) # {}
          /\ RegionOf(Get(shapes_tiled_dict, shapes_dict[i][1])) # {}
          /\ RegionOf(Get(shapes_tiled_dict, shapes_dict[j][1])) # {}

\* C2 (coverage preservation): when a call of tile_shapes has returned, the
\* union of the tiles is the union of the input regions.
C2_Coverage ==
    tile_pc = "done" => AllRegions(shapes_tiled_dict) = AllRegions(shapes_dict)

\* C2 witness: a call has returned for an input of three layers where a
\* lower layer lost part of its region, though not all, to a higher one.
C2_Witness ==
    /\ tile_pc = "done"
    /\ Len(shapes_dict) = 3
    /\ \E i \in 1..Len(shapes_dict) :
          LET tile == RegionOf(Get(shapes_tiled_dict, shapes_dict[i][1]))
          IN  tile # {} /\ tile # RegionAt(shapes_dict, i)

\* C3 (priority subtraction): when a call has returned, the result has
\* exactly the input's layer names, each once, and the tile of the layer at
\* position i of the input is its input region minus the input regions of
\* the layers before it; so the first layer's tile is its whole region and
\* a layer covered by the layers before it has an empty tile.
C3_PrioritySubtraction ==
    tile_pc = "done" =>
        /\ Len(shapes_tiled_dict) = Len(shapes_dict)
        /\ \A i \in 1..Len(shapes_dict) :
              /\ HasKey(shapes_tiled_dict, shapes_dict[i][1])
              /\ RegionOf(Get(shapes_tiled_dict, shapes_dict[i][1]))
                   = RegionAt(shapes_dict, i)
                     \ UNION {RegionAt(shapes_dict, j) : j \in 1..(i - 1)}
        /\ \A i, j \in 1..Len(shapes_tiled_dict) :
              i # j => shapes_tiled_dict[i][1] # shapes_tiled_dict[j][1]

\* C3 witness: the spec's scenario, core = the 10 x 10 square at the origin
\* above clad = the 20 x 20 square: tile(core) has area 100 and tile(clad)
\* area 300.
C3_Witness ==
    /\ tile_pc = "done"
    /\ Len(returned) = 1
    /\ Keys(shapes_dict) = <<"core", "clad">>
    /\ RegionAt(shapes_dict, 1) = QuadrantCells(<<0, 0>>)
    /\ RegionAt(shapes_dict, 2) = Cells
    /\ Area(RegionOf(Get(shapes_tiled_dict, "core"))) = 100
    /\ Area(RegionOf(Get(shapes_tiled_dict, "clad"))) = 300

\* C8 (one kind per run): when a call that produced a non-empty tile has
\* returned, every layer's entry, the entries of the layers with an empty
\* region or an empty tile included, is a multi-shape of the kind of the
\* first non-empty tile produced.
C8_OneKindPerRun ==
    (tile_pc = "done" /\ AllRegions(shapes_tiled_dict) # {}) =>
        LET first == CHOOSE i \in 1..Len(shapes_tiled_dict) :
                         /\ RegionAt(shapes_tiled_dict, i) # {}
                         /\ \A j \in 1..(i - 1) : RegionAt(shapes_tiled_dict, j) = {}
        IN  \A i \in 1..Len(shapes_tiled_dict) :
                shapes_tiled_dict[i][2].geom_type
                  = shapes_tiled_dict[first][2].geom_type

\* C8, what the code does: a layer's entry is a MultiLineString exactly when
\* its input geometry has no part at all, and a MultiPolygon otherwise.
C8_KindPerLayer ==
    tile_pc = "done" =>
        \A i \in 1..Len(shapes_dict) :
            Get(shapes_tiled_dict, shapes_dict[i][1]).geom_type =
                (IF GeomsOrSelf(shapes_dict[i][2]) = <<>>
                 THEN "MultiLineString" ELSE "MultiPolygon")

\* C10 (reversed order, restored by a second call): every finished call
\* returned the layers in the reverse of its argument's order; and when
\* tile_shapes has been applied to its own result, the second result has the
\* first argument's order and, for every layer, the first result's region.
C10_ReverseAndRestore ==
    /\ \A k \in 1..Len(returned) :
          Keys(returned[k][2]) = Reverse(Keys(returned[k][1]))
    /\ Len(returned) >= 2 =>
          /\ Keys(returned[2][2]) = Keys(returned[1][1])
          /\ \A i \in 1..Len(returned[1][2]) :
                RegionOf(Get(returned[2][2], returned[1][2][i][1]))
                  = RegionAt(returned[1][2], i)

\* C10 witness: the second call has returned, for a first argument of three
\* layers with overlapping regions and three non-empty tiles.
C10_Witness ==
    /\ Len(returned) >= 2
    /\ Len(returned[1][1]) = 3
    /\ \E i, j \in 1..3 :
          i # j /\ RegionAt(returned[1][1], i) \cap RegionAt(returned[1][1], j) # {}
    /\ \A i \in 1..3 : RegionAt(returned[1][2], i) # {}

\* -------------------------------------------- claims on cleanup_component

\* The items of the stack whose layer is not None, in the stack's order.
NonNull(stack) == SelectSeq(stack, LAMBDA item : item[2] # None)

\* C4 (one fuser call per layer with a descriptor): when cleanup_component
\* has ended, fuse_polygons has been called exactly once for each item of
\* the stack whose layer is not None, in the stack's order, with the
\* round_tol and simplify_tol of the call (2 and 1e-2 when not passed), never
\* for an item whose layer is None; and the returned dict has exactly the
\* names of those items as keys, in that order.
C4_OneCallPerLayer ==
    stack_pc \in {"returned", "raised"} =>
        LET items == NonNull(layerstack_dict)
        IN  /\ fuse_calls =
                 [i \in 1..Len(items) |->
                     [layername |-> items[i][1], layer |-> items[i][2],
                      round_tol |-> (IF passed.round_tol.given
                                     THEN passed.round_tol.value ELSE 2),
                      simplify_tol |-> (IF passed.simplify_tol.given
                                        THEN passed.simplify_tol.value ELSE -2)]]
            /\ stack_pc = "returned" => Keys(fused) = Keys(items)

\* C4, the part that holds: whenever cleanup_component returns, the calls and
\* the keys are as C4 says; and at every point the calls made are those for
\* the items with a layer among the items taken so far.
C4_WhenReturned ==
    /\ stack_pc = "returned" => C4_OneCallPerLayer
    /\ stack_pc \in {"comprehension", "returned"} =>
          Keys(fused) = Keys(NonNull(SubSeq(layerstack_dict, 1, stack_pos)))
    /\ \A i \in 1..Len(fuse_calls) : fuse_calls[i].layer # None

\* The raw polygons of a layer, and whether one is degenerate: fewer than 3
\* points, or no area once rounded.
RawPolygons(layer) == get_polygons(Extract(component, layer))

Degenerate(points) ==
    \/ Len(points) < 3
    \/ Cover(round_coordinates(LinearRing(points), round_tol)) = {}

\* C6 (a degenerate polygon is left out, nothing is aborted): the call of
\* cleanup_component never ends with an exception, and the fused region of
\* every layer is the union of its polygons that are not degenerate.
C6_DegenerateLeftOut ==
    /\ stack_pc # "raised"
    /\ \A i \in 1..Len(fused) :
          LET layer == Get(layerstack_dict, fused[i][1])
              raw == RawPolygons(layer)
          IN  RegionOf(fused[i][2]) =
                  UNION {Cover(round_coordinates(LinearRing(raw[k]), round_tol)) :
                             k \in {j \in 1..Len(raw) : ~Degenerate(raw[j])}}

\* C6, the part that holds: a polygon of three or more points that has no
\* area, as it is or once rounded, adds nothing to its layer's region and
\* aborts nothing; only a polygon of one or two points makes the call raise.
C6_NoAreaLeftOut ==
    /\ \A i \in 1..Len(fused) :
          LET raw == RawPolygons(Get(layerstack_dict, fused[i][1]))
          IN  RegionOf(fused[i][2]) =
                  UNION {Cover(round_coordinates(LinearRing(raw[k]), round_tol)) :
                             k \in {j \in 1..Len(raw) : ~Degenerate(raw[j])}}
    /\ stack_pc = "raised" =>
          \E k \in 1..Len(component) : Len(component[k].points) \in {1, 2}

\* ------------------------- claims on the interleaved calls of fuse_polygons

C5_EveryCoordinateRounded ==
    round_pc = "done" =>
        /\ Len(rounded) = Len(geom)
        /\ \A i \in 1..Len(geom) :
              /\ Len(rounded[i]) = Len(geom[i])
              /\ \A k \in 1..Len(geom[i]) : rounded[i][k] = round(geom[i][k], ndigits)
        /\ rounded[1] = rounded[Len(rounded)]

\* ---------------------------------------------------------- claims on Event

Count(l, x) == Cardinality({i \in 1..Len(l) : l[i] = x})

\* C7 (fire calls the registered handlers): after every sequence of
\* operations, the list of handlers holds each handler once per registration
\* that was added and not removed or cleared; add_handler and += put the
\* handler at the end; -= takes out the earliest registration of the handler
\* and leaves the others in their order; clear_handlers leaves none; fire
\* leaves the list as it is and calls its handlers, once per registration,
\* in the order they were added, each with the arguments of fire; and no
\* other operation calls a handler.
C7_FireCallsRegistered ==
    /\ \A h \in Handlers : Count(handlers, h) = live[h]
    /\ last_op.name \in {"add_handler", "iadd"} =>
          handlers = Append(before, last_op.handler)
    /\ last_op.name = "isub" =>
          \E i \in 1..Len(before) :
              /\ before[i] = last_op.handler
              /\ \A j \in 1..(i - 1) : before[j] # last_op.handler
              /\ handlers = SubSeq(before, 1, i - 1) \o SubSeq(before, i + 1, Len(before))
    /\ last_op.name = "clear_handlers" => handlers = <<>>
    /\ last_op.name = "fire" =>
          /\ handlers = before
          /\ called = [i \in 1..Len(handlers) |-> <<handlers[i], last_op.args>>]
          /\ \A h \in Handlers : Count([i \in 1..Len(called) |-> called[i][1]], h) = live[h]
    /\ last_op.name # "fire" => called = <<>>

\* C7 witness: fire has run on a list where a handler is registered twice
\* around another one, after a registration of that handler further on was
\* taken out or never made: three calls, the first and the third of the
\* same handler.
C7_Witness ==
    /\ last_op.name = "fire"
    /\ Len(called) = 3
    /\ called[1][1] = called[3][1]
    /\ called[1][1] # called[2][1]

====
